---- MODULE Spec2Model ----
(***************************************************************************)
(* Model of src/app.py: a Flask pizza-ordering application on SQLite.      *)
(*                                                                         *)
(* The database is modelled as SQLite in its default (rollback-journal)    *)
(* mode behaves for Python's sqlite3 module: every call of                 *)
(* get_db_connection() yields a NEW connection; a connection sees the      *)
(* committed tables plus its own uncommitted writes; the first write of a  *)
(* connection opens an implicit transaction and takes the database write   *)
(* lock, which it keeps until commit or rollback; a write attempted while  *)
(* another connection holds the lock waits for it, and raises "database is *)
(* locked" when the busy timeout runs out first.  A connection that waits  *)
(* on the request's own open transaction can only time out.                *)
(*                                                                         *)
(* Money: Pizza.price is kept in cents, and discount_amount / totals in    *)
(* hundredths of a cent, so that "/ 100" of line 139 is exact.             *)
(***************************************************************************)
EXTENDS Integers, Sequences, FiniteSets, TLC

(* ---------------------------- bounds ----------------------------------- *)
NumRequests == 2
MaxQty == 1
MaxLimit == 1

Requests == 1..NumRequests

(* SQL NULL / Python None, and a present value *)
NULL == <<>>
Some(v) == <<v>>

(* ------------------------- seed data ----------------------------------- *)
\* sample_pizzas of init_db, AUTOINCREMENT ids 1..8, price in cents
Pizza ==
  [i \in 1..8 |-> CASE i = 1 -> 1499 [] i = 2 -> 199 [] i = 3 -> 9999
                    [] i = 4 -> 1299 [] i = 5 -> 1499 [] i = 6 -> 1399
                    [] i = 7 -> 1599 [] OTHER -> 1699]

\* sqlite3.connect(DB_PATH): Python's default isolation_level "" opens an
\* implicit (deferred) transaction before INSERT/UPDATE; None would autocommit
isolation_level_autocommit == "AUTOCOMMIT"
isolation_level == "DEFERRED"

Autocommit == isolation_level = "AUTOCOMMIT"

(* ------------------------- form inputs --------------------------------- *)
\* request.form of POST /order.  pizza_id: absent/empty (NULL) or a numeric
\* string (kept as the integer SQLite's INTEGER affinity stores); quantity:
\* absent (NULL) or a numeric string; customer_name, promo_code: strings.
PizzaIdInputs == {NULL, Some(2), Some(9)}
QtyInputs == {NULL} \cup {Some(n) : n \in -1..MaxQty}
NameInputs == {"", "Ann"}
PromoInputs == {"", "  ", " save10", "SAVE10", "NOPE"}

\* the submissions tried: a well-formed order of pizza 2 under the stored
\* promo code, with at most one of its four fields changed
Nominal == [pizza_id |-> Some(2), quantity |-> Some(1),
            customer_name |-> "Ann", promo_code |-> " save10"]

Forms ==
  {f \in [pizza_id : PizzaIdInputs, quantity : QtyInputs,
           customer_name : NameInputs, promo_code : PromoInputs] :
     Cardinality({k \in DOMAIN Nominal : f[k] # Nominal[k]}) <= 1}

\* int(request.form.get('quantity', 1))
ParseQuantity(q) == IF q = NULL THEN 1 ELSE q[1]

\* str.strip() and str.upper() on the strings a client can submit here
strip(s) == CASE s = " save10" -> "save10" [] s = "  " -> "" [] OTHER -> s
upper(s) == CASE s = "save10" -> "SAVE10" [] s = " save10" -> " SAVE10"
              [] OTHER -> s

\* the four locals create_order reads from the form, lines 191-194
Locals(f) ==
  [pizza_id |-> f.pizza_id, quantity |-> ParseQuantity(f.quantity),
   customer_name |-> f.customer_name,
   promo_code |-> upper(strip(f.promo_code))]

\* all([pizza_id, quantity, customer_name]) : Python truthiness
all_fields_no_quantity(pizza_id, quantity, customer_name) ==
  pizza_id # NULL /\ customer_name # ""
all_fields(pizza_id, quantity, customer_name) ==
  pizza_id # NULL /\ quantity # 0 /\ customer_name # ""

VARIABLES
  orders,          \* committed rows of "Order", row i has id i
  PromoCode,       \* committed rows of PromoCode, by id
  pending,         \* pending[r]: uncommitted "Order" rows of r's connection
  lock,            \* request whose connection holds the write lock, 0 if none
  discount_default,\* default of "Order".discount_amount (schema not in src)
  times_used0,     \* PromoCode.times_used at start, by id
  pc,              \* where each request is in create_order / confirmation
  form,            \* the locals pizza_id, quantity, customer_name, promo_code
  order_id, promo, error, \* further locals of create_order
  status,          \* response status of POST /order, 0 while unanswered
  conf,            \* response of GET /confirmation/<order_id>
  open             \* connections a request has opened and not closed

vars == <<orders, PromoCode, pending, lock, discount_default, times_used0,
          pc, form, order_id, promo, error, status, conf, open>>

db == <<orders, PromoCode, pending, lock>>

PromoIds == {1}

PromoRows ==
  [code : {"SAVE10"}, discount_percent : {10}, is_active : {0, 1},
   usage_limit : {NULL} \cup {Some(n) : n \in 1..MaxLimit},
   times_used : 0..MaxLimit]

\* a stored row respects its own limit; one inactive row stands for all
PromoRowOk(row) ==
  /\ row.usage_limit # NULL => row.times_used <= row.usage_limit[1]
  /\ row.is_active = 0 => row.usage_limit = NULL /\ row.times_used = 0

NoForm == [pizza_id |-> NULL, quantity |-> 0, customer_name |-> "",
           promo_code |-> ""]
NoConf == [status |-> 0, subtotal |-> 0, total |-> 0]

Init ==
  /\ orders = <<>>
  /\ PromoCode \in [PromoIds -> PromoRows]
  /\ \A p \in PromoIds : PromoRowOk(PromoCode[p])
  /\ times_used0 = [p \in PromoIds |-> PromoCode[p].times_used]
  /\ discount_default \in {NULL, Some(0)}
  /\ pending = [r \in Requests |-> <<>>]
  /\ lock = 0
  /\ pc = [r \in Requests |-> "idle"]
  /\ form = [r \in Requests |-> NoForm]
  /\ order_id = [r \in Requests |-> 0]
  /\ promo = [r \in Requests |-> NULL]
  /\ error = [r \in Requests |-> ""]
  /\ status = [r \in Requests |-> 0]
  /\ conf = [r \in Requests |-> NoConf]
  /\ open = [r \in Requests |-> {}]

(* ------------------------- pure helpers -------------------------------- *)
\* the row INSERT INTO "Order" (pizza_id, quantity, customer_name) creates
OrderRow(pizza_id, quantity, customer_name) ==
  [pizza_id |-> pizza_id, quantity |-> quantity,
   customer_name |-> customer_name,
   promo_code_id |-> NULL, discount_amount |-> discount_default]

\* validate_promo_code: the SELECT on the committed PromoCode table
validate_promo_code(code) ==
  IF code = "" THEN NULL
  ELSE LET m == {p \in PromoIds :
                   /\ PromoCode[p].code = upper(code)
                   /\ PromoCode[p].is_active = 1
                   /\ \/ PromoCode[p].usage_limit = NULL
                      \/ PromoCode[p].times_used < PromoCode[p].usage_limit[1]}
       IN IF m = {} THEN NULL
          ELSE LET p == CHOOSE x \in m : \A y \in m : x <= y
               IN Some([id |-> p, code |-> PromoCode[p].code,
                        discount_percent |-> PromoCode[p].discount_percent,
                        is_active |-> PromoCode[p].is_active,
                        usage_limit |-> PromoCode[p].usage_limit,
                        times_used |-> PromoCode[p].times_used])

\* "Order" o JOIN Pizza p ON o.pizza_id = p.id WHERE o.id = ?, as a fresh
\* connection evaluates it: committed rows only
JoinFinds(oid) ==
  /\ oid \in 1..Len(orders)
  /\ orders[oid].pizza_id \in DOMAIN Pizza

ApplyFaults == {"select", "update_order", "update_promo"}

\* apply_promo_code on its own connection; fault names the statement that
\* raises ("none": no statement raises).  Yields the outcome and the
\* committed tables the call leaves behind.
apply_promo_code(oid, promo_code_id, discount_percent, fault) ==
  LET fail(e) == [success |-> FALSE, error |-> e,
                  orders |-> orders, PromoCode |-> PromoCode]
      total == orders[oid].quantity * Pizza[orders[oid].pizza_id]
      discount_amount == total * discount_percent
      o1 == [orders EXCEPT ![oid].promo_code_id = Some(promo_code_id),
                           ![oid].discount_amount = Some(discount_amount)]
      p1 == [PromoCode EXCEPT ![promo_code_id].times_used = @ + 1]
  IN  IF fault = "select" THEN fail("query failed")
      ELSE IF ~JoinFinds(oid) THEN fail("Order not found")
      ELSE IF lock # 0 \/ fault = "update_order"
        THEN fail("database is locked")
      ELSE IF fault = "update_promo"
        THEN [success |-> FALSE, error |-> "query failed",
              orders |-> IF Autocommit THEN o1 ELSE orders,
              PromoCode |-> PromoCode]
      ELSE [success |-> TRUE, error |-> "", orders |-> o1, PromoCode |-> p1]

\* get_order_details: the joined row, or None
get_order_details(oid) ==
  IF JoinFinds(oid)
  THEN Some([id |-> oid, quantity |-> orders[oid].quantity,
             discount_amount |-> orders[oid].discount_amount,
             pizza_id |-> orders[oid].pizza_id,
             pizza_price |-> Pizza[orders[oid].pizza_id],
             promo_code_id |-> orders[oid].promo_code_id])
  ELSE NULL

(* ----------------------------- actions --------------------------------- *)
\* create_order, lines 191-199: read the form, reject or open a connection.
\* Requests are interchangeable, so they are admitted in index order.
Begin(r) ==
  /\ pc[r] = "idle"
  /\ r > 1 => pc[r - 1] # "idle"
  /\ \E f \in Forms :
       LET l == Locals(f) IN
       /\ form' = [form EXCEPT ![r] = l]
       /\ IF ~all_fields(l.pizza_id, l.quantity, l.customer_name)
          THEN /\ status' = [status EXCEPT ![r] = 400]
               /\ pc' = [pc EXCEPT ![r] = "done"]
               /\ open' = open
          ELSE /\ status' = status
               /\ pc' = [pc EXCEPT ![r] = "insert"]
               /\ open' = [open EXCEPT ![r] = {"create_order"}]
  /\ UNCHANGED <<db, discount_default, times_used0, order_id, promo, error,
                 conf>>

\* create_order, lines 202-209: the INSERT inside "with conn"
Insert(r) ==
  /\ pc[r] = "insert"
  /\ Autocommit \/ lock = 0
  /\ LET row == OrderRow(form[r].pizza_id[1], form[r].quantity,
                         form[r].customer_name)
     IN IF Autocommit
        THEN /\ orders' = Append(orders, row)
             /\ UNCHANGED <<pending, lock>>
        ELSE /\ pending' = [pending EXCEPT ![r] = <<row>>]
             /\ lock' = r
             /\ orders' = orders
  /\ order_id' = [order_id EXCEPT ![r] = Len(orders) + 1]
  /\ pc' = [pc EXCEPT ![r] =
              IF form[r].promo_code # "" THEN "validate" ELSE "commit"]
  /\ UNCHANGED <<PromoCode, discount_default, times_used0, form, promo,
                 error, status, conf, open>>

\* create_order, lines 212-214, had it refused an order whose code is not
\* valid instead of going on without a discount
ValidatePromoReject(r) ==
  /\ pc[r] = "validate"
  /\ LET res == validate_promo_code(form[r].promo_code) IN
       /\ promo' = [promo EXCEPT ![r] = res]
       /\ error' = [error EXCEPT ![r] =
                      IF res = NULL THEN "Invalid or inactive promo code"
                      ELSE ""]
       /\ pc' = [pc EXCEPT ![r] = IF res = NULL THEN "done" ELSE "apply"]
       /\ status' = [status EXCEPT ![r] = IF res = NULL THEN 400 ELSE @]
       /\ pending' = [pending EXCEPT ![r] = IF res = NULL THEN <<>> ELSE @]
       /\ lock' = IF res = NULL /\ lock = r THEN 0 ELSE lock
       /\ open' = [open EXCEPT ![r] = IF res = NULL THEN {} ELSE @]
  /\ UNCHANGED <<orders, PromoCode, discount_default, times_used0, form,
                 order_id, conf>>

\* create_order, lines 212-214, calling validate_promo_code
ValidatePromo(r) ==
  /\ pc[r] = "validate"
  /\ LET res == validate_promo_code(form[r].promo_code) IN
       /\ promo' = [promo EXCEPT ![r] = res]
       /\ error' = [error EXCEPT ![r] =
                      IF res = NULL THEN "Invalid or inactive promo code"
                      ELSE ""]
       /\ pc' = [pc EXCEPT ![r] = IF res = NULL THEN "commit" ELSE "apply"]
  /\ UNCHANGED <<db, discount_default, times_used0, form, order_id, status,
                 conf, open>>

\* create_order, lines 215-218, calling apply_promo_code
ApplyWith(r, fault) ==
  /\ pc[r] = "apply"
  /\ LET res == apply_promo_code(order_id[r], promo[r][1].id,
                                 promo[r][1].discount_percent, fault)
     IN /\ orders' = res.orders
        /\ PromoCode' = res.PromoCode
        /\ error' = [error EXCEPT ![r] = res.error]
  /\ pc' = [pc EXCEPT ![r] = "commit"]
  /\ UNCHANGED <<pending, lock, discount_default, times_used0, form,
                 order_id, promo, status, conf, open>>

ApplyPromo(r) == ApplyWith(r, "none")

\* create_order, lines 202, 220, 225: "with conn" commits, the connection is
\* closed and the client is redirected
Commit(r) ==
  /\ pc[r] = "commit"
  /\ orders' = orders \o pending[r]
  /\ pending' = [pending EXCEPT ![r] = <<>>]
  /\ lock' = IF lock = r THEN 0 ELSE lock
  /\ status' = [status EXCEPT ![r] = 302]
  /\ open' = [open EXCEPT ![r] = @ \ {"create_order"}]
  /\ pc' = [pc EXCEPT ![r] = "redirected"]
  /\ UNCHANGED <<PromoCode, discount_default, times_used0, form, order_id,
                 promo, error, conf>>

\* confirmation: GET /confirmation/<order_id> that the redirect leads to
Confirmation(r) ==
  /\ pc[r] = "redirected"
  /\ LET order == get_order_details(order_id[r]) IN
       conf' = [conf EXCEPT ![r] =
         IF order = NULL THEN [status |-> 404, subtotal |-> 0, total |-> 0]
         ELSE LET subtotal == order[1].pizza_price * order[1].quantity IN
              IF order[1].discount_amount = NULL
              THEN [status |-> 500, subtotal |-> subtotal, total |-> 0]
              ELSE [status |-> 200, subtotal |-> subtotal,
                    total |-> subtotal * 100 - order[1].discount_amount[1]]]
  /\ pc' = [pc EXCEPT ![r] = "done"]
  /\ UNCHANGED <<db, discount_default, times_used0, form, order_id, promo,
                 error, status, open>>

(* ------------------------ storage failures ----------------------------- *)
\* the INSERT raises (e.g. "database is locked" after the busy timeout)
InsertRaises(r) ==
  /\ pc[r] = "insert"
  /\ status' = [status EXCEPT ![r] = 500]
  /\ error' = [error EXCEPT ![r] = "insert raised"]
  /\ open' = [open EXCEPT ![r] = @ \ {"create_order"}]
  /\ pc' = [pc EXCEPT ![r] = "done"]
  /\ UNCHANGED <<db, discount_default, times_used0, form, order_id, promo,
                 conf>>

\* the SELECT of validate_promo_code raises: nothing catches it before
\* "with conn" rolls back and create_order answers 500
ValidateRaises(r) ==
  /\ pc[r] = "validate"
  /\ pending' = [pending EXCEPT ![r] = <<>>]
  /\ lock' = IF lock = r THEN 0 ELSE lock
  /\ status' = [status EXCEPT ![r] = 500]
  /\ error' = [error EXCEPT ![r] = "lookup raised"]
  /\ open' = [open EXCEPT ![r] = (@ \ {"create_order"})
                                   \cup {"validate_promo_code"}]
  /\ pc' = [pc EXCEPT ![r] = "done"]
  /\ UNCHANGED <<orders, PromoCode, discount_default, times_used0, form,
                 order_id, promo, conf>>

\* a statement inside apply_promo_code's try block raises
ApplyRaises(r) == \E fault \in ApplyFaults : ApplyWith(r, fault)

Next ==
  \E r \in Requests :
    \/ Begin(r)
    \/ Insert(r)
    \/ ValidatePromo(r)
    \/ ApplyPromo(r)
    \/ Commit(r)
    \/ Confirmation(r)

Fault ==
  \E r \in Requests :
    \/ InsertRaises(r)
    \/ ValidateRaises(r)
    \/ ApplyRaises(r)

NextFault == Next \/ Fault

Spec == Init /\ [][Next]_vars
SpecFault == Init /\ [][NextFault]_vars

(* ------------------------------ claims --------------------------------- *)
\* the response to POST /order has been sent
Answered(r) == status[r] # 0
\* POST /order ended in the redirect to the confirmation page
Redirected(r) == status[r] = 302
\* the order row of request r is in the committed table
Committed(r) == order_id[r] \in 1..Len(orders)

\* C1: a validated POST /order that carries a stored, active, under-limit
\* promo code ends with its order linked to the code, with discount_amount =
\* quantity * price * discount_percent / 100, and the code's times_used one
\* higher than the request found it.
C1_PromoApplied ==
  \A r \in Requests :
    (Answered(r) /\ promo[r] # NULL) =>
      /\ Committed(r)
      /\ orders[order_id[r]].promo_code_id = Some(promo[r][1].id)
      /\ JoinFinds(order_id[r]) =>
           orders[order_id[r]].discount_amount =
             Some(form[r].quantity * Pizza[form[r].pizza_id[1]]
                    * promo[r][1].discount_percent)
      /\ PromoCode[promo[r][1].id].times_used = promo[r][1].times_used + 1

\* C2: in every reachable state, a promo code with a usage limit has
\* times_used <= usage_limit, whatever the interleaving of the requests.
C2_UsageWithinLimit ==
  \A p \in PromoIds :
    PromoCode[p].usage_limit # NULL =>
      PromoCode[p].times_used <= PromoCode[p].usage_limit[1]

\* two requests have each validated the same limited code and passed through
\* apply_promo_code to the redirect
C2_Witness ==
  \E r1, r2 \in Requests :
    /\ r1 # r2
    /\ \A r \in {r1, r2} :
         /\ Redirected(r)
         /\ promo[r] # NULL
         /\ promo[r][1].usage_limit # NULL
         /\ error[r] # ""

\* C3: whenever the promo step of a validated POST /order fails (the lookup
\* or the application raises or reports failure), the order row is still
\* committed, without promo linkage, and the request ends in the redirect.
PromoStepFailed(r) == error[r] \notin {"", "insert raised"}

C3_PromoFailureSuppressed ==
  \A r \in Requests :
    (Answered(r) /\ PromoStepFailed(r)) =>
      /\ Redirected(r)
      /\ Committed(r)
      /\ orders[order_id[r]].promo_code_id = NULL

\* C4: a validated POST /order whose promo code is unknown, inactive or used
\* up changes no PromoCode row in any of its steps, and ends redirected with
\* its order committed and promo_code_id and discount_amount left unset.
CodeUsable(code) ==
  \E p \in PromoIds :
    /\ PromoCode[p].code = code
    /\ PromoCode[p].is_active = 1
    /\ \/ PromoCode[p].usage_limit = NULL
       \/ PromoCode[p].times_used < PromoCode[p].usage_limit[1]

C4_InvalidCodeStep(r) ==
  (/\ pc[r] \notin {"idle", "done"}
   /\ pc'[r] # pc[r]
   /\ form[r].promo_code # ""
   /\ ~CodeUsable(form[r].promo_code))
  => /\ PromoCode' = PromoCode
     /\ pc'[r] = "done" => pc[r] = "redirected"
     /\ pc'[r] = "redirected" =>
          /\ status'[r] = 302
          /\ order_id'[r] \in 1..Len(orders')
          /\ orders'[order_id'[r]].promo_code_id = NULL
          /\ orders'[order_id'[r]].discount_amount = discount_default
          /\ orders'[order_id'[r]].quantity = form[r].quantity

C4_InvalidCodeNoDiscount == [][\A r \in Requests : C4_InvalidCodeStep(r)]_vars

\* a request with a code that is not usable has been redirected
C4_Witness ==
  \E r \in Requests :
    /\ Redirected(r)
    /\ form[r].promo_code # ""
    /\ ~CodeUsable(form[r].promo_code)
    /\ Committed(r)

\* C5: a POST /order with quantity 0, an empty customer name or no pizza_id
\* is answered 400 at once, and no table, pending row or connection changes.
C5_RejectStep(r) ==
  (/\ pc[r] = "idle"
   /\ pc'[r] # "idle"
   /\ \/ form'[r].quantity = 0
      \/ form'[r].customer_name = ""
      \/ form'[r].pizza_id = NULL)
  => /\ status'[r] = 400
     /\ pc'[r] = "done"
     /\ db' = db
     /\ open'[r] = {}

C6_PositiveQuantity ==
  \A i \in 1..Len(orders) :
    /\ orders[i].quantity >= 1
    /\ orders[i].customer_name # ""
    /\ orders[i].discount_amount # NULL => orders[i].discount_amount[1] >= 0

\* C7: for a validated POST /order without promo code (of a pizza on the
\* menu), GET /confirmation completes with status 200 and
\* total = subtotal = price * quantity.
C7_ConfirmationWithoutPromo ==
  \A r \in Requests :
    (/\ pc[r] = "done"
     /\ Redirected(r)
     /\ form[r].promo_code = ""
     /\ form[r].pizza_id[1] \in DOMAIN Pizza)
    => /\ conf[r].status = 200
       /\ conf[r].subtotal = Pizza[form[r].pizza_id[1]] * form[r].quantity
       /\ conf[r].total = conf[r].subtotal * 100

\* C8: in every committed state each code's times_used is its initial value
\* plus the number of committed orders whose promo_code_id references it.
C8_CounterMatchesOrders ==
  \A p \in PromoIds :
    PromoCode[p].times_used =
      times_used0[p]
        + Cardinality({i \in 1..Len(orders) :
                         orders[i].promo_code_id = Some(p)})

\* a request with a validated code went through apply_promo_code and its
\* order is committed
C8_Witness ==
  \E r \in Requests :
    /\ Redirected(r)
    /\ promo[r] # NULL
    /\ Committed(r)
    /\ error[r] # ""

\* C9: when a request has been answered, every connection it opened is
\* closed.
C9_ConnectionsClosed ==
  \A r \in Requests : Answered(r) => open[r] = {}

\* C10: every committed order references a pizza of the Pizza table, and the
\* confirmation page a successful POST redirects to is never a 404.
C10_OrderReferencesPizza ==
  /\ \A i \in 1..Len(orders) : orders[i].pizza_id \in DOMAIN Pizza
  /\ \A r \in Requests :
       (pc[r] = "done" /\ Redirected(r)) => conf[r].status # 404

====
